---- MODULE Spec2Model ----
(***************************************************************************)
(* The WebRTC voice client of frontend/static/app.js (the live code,       *)
(* lines 365-544): two authenticated, auto-reconnecting WebSockets, one    *)
(* RTCPeerConnection, a MediaRecorder that streams audio frames, and the   *)
(* three button handlers startCall, disconnectCall and toggleMute.         *)
(*                                                                         *)
(* JavaScript runs each callback to completion, so every action below is   *)
(* one callback (or one continuation of an async function after an await). *)
(* The browser, the network and the user are the environment: they choose  *)
(* when a socket opens or drops, when a promise settles, when a timer is   *)
(* due and when a button is clicked.                                       *)
(***************************************************************************)
EXTENDS Integers, Sequences, FiniteSets, Bags, TLC

(* ------------------------------ bounds --------------------------------- *)

\* WebSocket objects ever constructed (two by startWebRTC, the rest by timers).
MaxSockets == 4
\* startCall invocations that pass both checks and reach createOffer.
MaxCalls == 2
\* Chunks the MediaRecorder hands to ondataavailable.
MaxFrames == 1
\* Local ICE candidates the RTCPeerConnection reports.
MaxCandidates == 1
\* ICE candidates of the remote peer that arrive on the signaling socket.
MaxRemoteCandidates == 2
\* Messages that arrive on the audio sockets.
MaxInbound == 2
\* Samples are counted in steps of 1 / SampleScale: SampleScale stands for 1.0.
SampleScale == 100
\* The largest sample magnitude the capture hands over, in those steps.
MaxSample == 150

(* ------------------------- program constants --------------------------- *)

\* setTimeout(..., 3000): the reconnection delay, in seconds.
ReconnectDelay == 3

signalingServerUrl == "ws"
audioStreamUrl == "audio_stream"
\* Math.random().toString(36).substr(2, 9), fixed once at script load.
peerId == "me"

\* A field a message does not carry, an unset variable.
Absent == "absent"
\* The value of the access_token cookie when it is there.
Jwt == "jwt"
\* What document.cookie may hold when connectWebSocket reads it: the cookie is
\* set, expires and is cleared outside this script.
Cookies == {Jwt, Absent}
\* What the user may have typed into #targetPeerId when clicking Call.
TargetInputs == {"", "a", "b"}
\* event.data of a message on an audio socket: binaryType is never set, so a
\* binary frame comes as a Blob and never as an ArrayBuffer; a text frame
\* comes as a string.
MessageData == {"Blob", "string"}
\* The candidate descriptors an inbound ice-candidate message may carry.
RemoteCandidates == {"x", "y"}

VARIABLES
    sockets,           \* every WebSocket constructed so far, by creation order
    signalingSocket,   \* index into sockets, 0 for undefined
    audioSocket,       \* index into sockets, 0 for undefined
    webrtc,            \* position of startWebRTC
    recorder,          \* position of streamAudio / the MediaRecorder
    localConnection,   \* the RTCPeerConnection and what is kept with it
    remotePeerId,
    isMuted,
    callDisabled,      \* callButton.disabled
    disconnectDisabled,\* disconnectButton.disabled
    status,            \* statusElement.textContent
    calls,             \* bag of startCall invocations waiting on a promise
    started,           \* startCall invocations that passed their checks
    produced,          \* chunks handed to ondataavailable so far
    converting,        \* chunks whose arrayBuffer() promise is pending
    candidates,        \* local ICE candidates reported so far
    playback,          \* inbound audio: what arrived, is pending, was played
    pcm,               \* the sample last quantized for PCM transmission
    last               \* the handler that ran last and how it ended

vars == <<sockets, signalingSocket, audioSocket, webrtc, recorder,
          localConnection, remotePeerId, isMuted, callDisabled,
          disconnectDisabled, status, calls, started, produced,
          converting, candidates, playback, pcm, last>>

(* ------------------------------ messages ------------------------------- *)

\* JSON.stringify({ type: "auth", token: token }): no peer_id field.
AuthMessage(token) ==
    [type |-> "auth", token |-> token, peer_id |-> Absent,
     target_peer |-> Absent, body |-> 0]

OfferMessage(target) ==
    [type |-> "offer", token |-> Absent, peer_id |-> peerId,
     target_peer |-> target, body |-> 0]

IceCandidateMessage(target, n) ==
    [type |-> "ice-candidate", token |-> Absent, peer_id |-> peerId,
     target_peer |-> target, body |-> n]

\* audioSocket.send(arrayBuffer): a binary frame, no envelope.
AudioFrame(n) ==
    [type |-> "audio", token |-> Absent, peer_id |-> Absent,
     target_peer |-> Absent, body |-> n]

(* ------------------------------ WebSocket ------------------------------ *)

\* new WebSocket(url) with the closures connectWebSocket attaches to it.
\* timer and elapsed are the setTimeout of its onclose. Kept for the record:
\* closedBy, who closed it; parent, the socket whose onclose timer made this
\* call (0: startWebRTC); waited, how long that timer had been pending;
\* outlived, whether its timer was pending when a disconnectCall returned.
NewSocket(url, onMessage, token, parent, waited) ==
    [url |-> url, onMessage |-> onMessage, token |-> token,
     readyState |-> "CONNECTING", sent |-> <<>>,
     timer |-> "none", elapsed |-> 0, outlived |-> FALSE,
     closedBy |-> "none", parent |-> parent, waited |-> waited]

\* connectWebSocket without its early return.
ConnectUnchecked(socks, url, onMessage, token, parent, waited) ==
    Append(socks, NewSocket(url, onMessage, token, parent, waited))

\* connectWebSocket with a retry cap: the reconnection of a socket that was
\* itself a reconnection is given up.
ConnectCapped(socks, url, onMessage, token, parent, waited) ==
    IF token = Absent \/ (parent # 0 /\ socks[parent].parent # 0)
    THEN socks
    ELSE Append(socks, NewSocket(url, onMessage, token, parent, waited))

\* connectWebSocket(url, onMessage): the sockets after the call. token is what
\* the call reads from document.cookie, Absent when there is no access_token.
ConnectWebSocket(socks, url, onMessage, token, parent, waited) ==
    IF token = Absent
    THEN socks
    ELSE Append(socks, NewSocket(url, onMessage, token, parent, waited))

\* What connectWebSocket returns: the new socket, or undefined.
ConnectResult(socks, token) == IF token = Absent THEN 0 ELSE Len(socks) + 1

\* socket.send(data): queued on an OPEN socket, discarded without an error on
\* a CLOSING or CLOSED one.
Send(socks, i, msg) ==
    IF socks[i].readyState = "OPEN"
    THEN [socks EXCEPT ![i].sent = Append(@, msg)]
    ELSE socks

\* socket.send throws on a socket that is still CONNECTING; calling it on
\* undefined is a TypeError.
SendThrows(socks, i) == i = 0 \/ socks[i].readyState = "CONNECTING"

\* What a disconnectCall that runs to its end leaves of the timers: it holds
\* no clearTimeout, so every pending timer stays pending.
AfterDisconnect(socks) ==
    [i \in 1..Len(socks) |->
        IF socks[i].timer = "pending"
        THEN [socks[i] EXCEPT !.outlived = TRUE]
        ELSE socks[i]]

\* socket.close(): CONNECTING or OPEN becomes CLOSING; otherwise nothing.
Close(socks, i) ==
    IF socks[i].readyState \in {"CONNECTING", "OPEN"}
    THEN [socks EXCEPT ![i].readyState = "CLOSING"]
    ELSE socks

\* An onopen that sends nothing.
OnOpenSilent(s) == [s EXCEPT !.readyState = "OPEN"]

\* socket.onopen
OnOpen(s) == [s EXCEPT !.readyState = "OPEN",
                       !.sent = Append(@, AuthMessage(s.token))]

\* socket.onclose: whatever closed the socket, a reconnection is scheduled.
OnClose(s, by) == [s EXCEPT !.readyState = "CLOSED", !.closedBy = by,
                            !.timer = "pending", !.elapsed = 0]

\* What last holds after a handler of the page has run: which one, and how it
\* ended.
Step(op, note) == [op |-> op, note |-> note]
\* What last holds after a socket event, a timer or a browser promise that no
\* handler of the page was waiting for.
Event == Step("event", "ok")

\* let localConnection: no RTCPeerConnection yet. signalingState and the two
\* descriptions are those of the RTCPeerConnection; buffered and applied are
\* the remote ICE candidates held for it and handed to it, in order. Kept for
\* the record: early, the candidates that arrived before a remote description
\* was set.
NoConnection ==
    [state |-> "undefined", localDescription |-> FALSE,
     signalingState |-> "stable", remoteDescription |-> FALSE,
     buffered |-> <<>>, applied |-> <<>>, early |-> <<>>]

\* The page once the script has been evaluated, before window.onload. The
\* markup is not part of the sources: both buttons start enabled, which is
\* what a button is without a disabled attribute.
Init ==
    /\ sockets = <<>>
    /\ signalingSocket = 0
    /\ audioSocket = 0
    /\ webrtc = "load"
    /\ recorder = "none"
    /\ localConnection = NoConnection
    /\ remotePeerId = Absent
    /\ isMuted = FALSE
    /\ callDisabled = FALSE
    /\ disconnectDisabled = FALSE
    /\ status = ""
    /\ calls = EmptyBag
    /\ started = 0
    /\ produced = 0
    /\ converting = {}
    /\ candidates = 0
    /\ playback = [arrived |-> 0, blobs |-> {}, decoding |-> {},
                   played |-> <<>>]
    /\ pcm = [converted |-> FALSE, sample |-> 0, out |-> 0]
    /\ last = Step("load", "ok")

\* window.onload = startWebRTC, up to its first await. Both connectWebSocket
\* calls run in the same task and read the same cookie.
StartWebRTC(token) ==
    /\ webrtc = "load"
    /\ LET s1 == ConnectWebSocket(sockets, signalingServerUrl,
                                  "signalingHandler", token, 0, 0)
           s2 == ConnectWebSocket(s1, audioStreamUrl, "audioHandler",
                                  token, 0, 0)
       IN /\ signalingSocket' = ConnectResult(sockets, token)
          /\ audioSocket' = ConnectResult(s1, token)
          /\ sockets' = s2
    /\ webrtc' = "getUserMedia"
    /\ last' = Step("startWebRTC", IF token = Absent THEN "noToken" ELSE "ok")
    /\ UNCHANGED <<recorder, localConnection, remotePeerId, isMuted,
                   callDisabled, disconnectDisabled, status, calls, started,
                   produced, converting, candidates, playback, pcm>>

\* navigator.mediaDevices.getUserMedia resolves: startWebRTC runs to its end.
\* The listeners are registered, the RTCPeerConnection is made and streamAudio
\* is called, which runs up to its own getUserMedia.
GetUserMediaResolved ==
    /\ webrtc = "getUserMedia"
    /\ webrtc' = "ready"
    /\ localConnection' = [localConnection EXCEPT
                               !.state = "open",
                               !.localDescription = FALSE,
                               !.signalingState = "stable",
                               !.remoteDescription = FALSE]
    /\ recorder' = "getUserMedia"
    /\ last' = Event
    /\ UNCHANGED <<sockets, signalingSocket, audioSocket, remotePeerId,
                   isMuted, callDisabled, disconnectDisabled, status, calls,
                   started, produced, converting, candidates, playback, pcm>>

\* getUserMedia rejects (permission denied, no device): startWebRTC ends there
\* and no button ever gets a listener.
GetUserMediaRejected ==
    /\ webrtc = "getUserMedia"
    /\ webrtc' = "failed"
    /\ last' = Event
    /\ UNCHANGED <<sockets, signalingSocket, audioSocket, recorder,
                   localConnection, remotePeerId, isMuted, callDisabled,
                   disconnectDisabled, status, calls, started, produced,
                   converting, candidates, playback, pcm>>

\* streamAudio after its await: new MediaRecorder(...).start(1000). A second
\* getUserMedia that rejects leaves recorder where it is for good.
StreamAudioStarted ==
    /\ recorder = "getUserMedia"
    /\ recorder' = "recording"
    /\ last' = Event
    /\ UNCHANGED <<sockets, signalingSocket, audioSocket, webrtc,
                   localConnection, remotePeerId, isMuted, callDisabled,
                   disconnectDisabled, status, calls, started, produced,
                   converting, candidates, playback, pcm>>

(* ------------------------- socket events, timers ----------------------- *)

\* The connection is established: readyState becomes OPEN and onopen runs.
SocketOpened(i) ==
    /\ sockets[i].readyState = "CONNECTING"
    /\ sockets' = [sockets EXCEPT ![i] = OnOpen(@)]
    /\ status' = "Connected"
    /\ last' = Event
    /\ UNCHANGED <<signalingSocket, audioSocket, webrtc, recorder,
                   localConnection, remotePeerId, isMuted, callDisabled,
                   disconnectDisabled, calls, started, produced, converting,
                   candidates, playback, pcm>>

\* The connection fails or the server or the network ends it: onclose runs on
\* a socket nobody called close() on.
SocketDropped(i) ==
    /\ sockets[i].readyState \in {"CONNECTING", "OPEN"}
    /\ sockets' = [sockets EXCEPT ![i] = OnClose(@, "remote")]
    /\ status' = "Disconnected"
    /\ last' = Event
    /\ UNCHANGED <<signalingSocket, audioSocket, webrtc, recorder,
                   localConnection, remotePeerId, isMuted, callDisabled,
                   disconnectDisabled, calls, started, produced, converting,
                   candidates, playback, pcm>>

\* The closing handshake that close() began is over: onclose runs.
SocketClosed(i) ==
    /\ sockets[i].readyState = "CLOSING"
    /\ sockets' = [sockets EXCEPT ![i] = OnClose(@, "local")]
    /\ status' = "Disconnected"
    /\ last' = Event
    /\ UNCHANGED <<signalingSocket, audioSocket, webrtc, recorder,
                   localConnection, remotePeerId, isMuted, callDisabled,
                   disconnectDisabled, calls, started, produced, converting,
                   candidates, playback, pcm>>

\* The 3000 ms of the timer that socket i's onclose set have passed.
DelayElapsed(i) ==
    /\ sockets[i].timer = "pending"
    /\ sockets[i].elapsed < ReconnectDelay
    /\ sockets' = [sockets EXCEPT ![i].elapsed = ReconnectDelay]
    /\ last' = Event
    /\ UNCHANGED <<signalingSocket, audioSocket, webrtc, recorder,
                   localConnection, remotePeerId, isMuted, callDisabled,
                   disconnectDisabled, status, calls, started, produced,
                   converting, candidates, playback, pcm>>

\* A timer set with no delay.
TimerDueAtOnce(s) == s.timer = "pending"

\* setTimeout(f, 3000): f may run once the delay has passed.
TimerDue(s) == s.timer = "pending" /\ s.elapsed >= ReconnectDelay

\* A timer that stays set after its callback has run, as setInterval's does.
TimerRepeats == "pending"

\* What running the callback leaves of the timer: setTimeout fires once.
TimerAfterFire == "fired"

\* The timer callback of socket i's onclose: connectWebSocket(url, onMessage),
\* its result discarded.
TimerFired(i, token) ==
    /\ TimerDue(sockets[i])
    /\ token = Absent \/ Len(sockets) < MaxSockets
    /\ sockets' = ConnectWebSocket(
                     [sockets EXCEPT ![i].timer = TimerAfterFire,
                                     ![i].elapsed = 0],
                     sockets[i].url, sockets[i].onMessage, token, i,
                     sockets[i].elapsed)
    /\ last' = Step("timer", IF token = Absent THEN "noToken" ELSE "connect")
    /\ UNCHANGED <<signalingSocket, audioSocket, webrtc, recorder,
                   localConnection, remotePeerId, isMuted, callDisabled,
                   disconnectDisabled, status, calls, started, produced,
                   converting, candidates, playback, pcm>>

(* ------------------------------ startCall ------------------------------ *)

\* A check of the handle alone, not of its readyState.
SignalingDefined == signalingSocket # 0

\* signalingSocket && signalingSocket.readyState === WebSocket.OPEN
SignalingOpen ==
    signalingSocket # 0 /\ sockets[signalingSocket].readyState = "OPEN"

\* !remotePeerId, on the value just read from #targetPeerId
TargetMissing(input) == input = ""

\* A startCall invocation that waits on a promise: asked is the remote peer
\* id it was made with, at the promise it waits on. Invocations with the same
\* two are alike, so those that wait form a bag.
Call(asked, at) == [asked |-> asked, at |-> at]
Waiting(c) == SetToBag({c})

\* A click on callButton: startCall up to its first await. input is the text
\* of #targetPeerId. An invocation that passes both checks waits in calls
\* until it ends.
StartCall(input) ==
    /\ webrtc = "ready"
    /\ ~callDisabled
    /\ IF ~SignalingOpen
       THEN /\ last' = Step("startCall", "alert")
            /\ UNCHANGED <<remotePeerId, calls, started>>
       ELSE IF TargetMissing(input)
       THEN /\ remotePeerId' = input
            /\ last' = Step("startCall", "alert")
            /\ UNCHANGED <<calls, started>>
       ELSE /\ started < MaxCalls
            /\ started' = started + 1
            /\ remotePeerId' = input
            /\ calls' = calls (+) Waiting(Call(input, "createOffer"))
            /\ last' = Step("startCall", "createOffer")
    /\ UNCHANGED <<sockets, signalingSocket, audioSocket, webrtc, recorder,
                   localConnection, isMuted, callDisabled, disconnectDisabled,
                   status, produced, converting, candidates, playback, pcm>>

\* await localConnection.createOffer() settles. On a closed RTCPeerConnection
\* the promise rejects and startCall ends with that error.
CreateOfferSettled(c) ==
    /\ c.at = "createOffer"
    /\ IF localConnection.state = "closed"
       THEN /\ calls' = calls (-) Waiting(c)
            /\ last' = Step("startCall", "throw")
       ELSE /\ calls' = (calls (-) Waiting(c))
                           (+) Waiting(Call(c.asked, "setLocalDescription"))
            /\ last' = Event
    /\ UNCHANGED <<sockets, signalingSocket, audioSocket, webrtc, recorder,
                   localConnection, remotePeerId, isMuted, callDisabled,
                   disconnectDisabled, status, started, produced, converting,
                   candidates, playback, pcm>>

\* await localConnection.setLocalDescription(offer) settles and startCall runs
\* to its end: the offer is sent with the remotePeerId of that moment and the
\* buttons are switched.
SetLocalDescriptionSettled(c) ==
    /\ c.at = "setLocalDescription"
    /\ calls' = calls (-) Waiting(c)
    /\ IF localConnection.state = "closed" \/ SendThrows(sockets, signalingSocket)
       THEN /\ last' = Step("startCall", "throw")
            /\ UNCHANGED <<sockets, localConnection, callDisabled,
                           disconnectDisabled>>
       ELSE /\ localConnection' = [localConnection EXCEPT
                                      !.localDescription = TRUE,
                                      !.signalingState = "have-local-offer"]
            /\ sockets' = Send(sockets, signalingSocket,
                               OfferMessage(remotePeerId))
            /\ callDisabled' = TRUE
            /\ disconnectDisabled' = FALSE
            /\ last' = Step("startCall", "done")
    /\ UNCHANGED <<signalingSocket, audioSocket, webrtc, recorder,
                   remotePeerId, isMuted, status, started, produced,
                   converting, candidates, playback, pcm>>

\* localConnection.onicecandidate with a candidate: gathering runs once a
\* local description is set and until the connection is closed.
IceCandidate ==
    /\ localConnection.state = "open"
    /\ localConnection.localDescription
    /\ candidates < MaxCandidates
    /\ candidates' = candidates + 1
    /\ IF SendThrows(sockets, signalingSocket)
       THEN /\ last' = Step("onicecandidate", "throw")
            /\ UNCHANGED sockets
       ELSE /\ sockets' = Send(sockets, signalingSocket,
                               IceCandidateMessage(remotePeerId, candidates + 1))
            /\ last' = Step("onicecandidate", "ok")
    /\ UNCHANGED <<signalingSocket, audioSocket, webrtc, recorder,
                   localConnection, remotePeerId, isMuted, callDisabled,
                   disconnectDisabled, status, calls, started, produced,
                   converting, playback, pcm>>

(* ----------------------------- signaling in ---------------------------- *)

\* socket.onmessage = onMessage: a message event fires only on an OPEN
\* socket, and the signaling handler is the onMessage of every socket made
\* for signalingServerUrl, by startWebRTC or by a reconnection timer.
DeliversSignaling(i) ==
    /\ sockets[i].readyState = "OPEN"
    /\ sockets[i].onMessage = "signalingHandler"

\* An answer is taken whatever the session is doing.
AnswerAlwaysTaken(pc) == TRUE

\* An answer is taken by a session that is at rest, not by one that waits for
\* it.
OfferOutstandingAtRest(pc) ==
    pc.state = "open" /\ pc.signalingState = "stable"

\* acceptAnswer's condition: this side has made an offer that no answer has
\* met yet.
OfferOutstanding(pc) ==
    pc.state = "open" /\ pc.signalingState = "have-local-offer"

\* acceptOffer's condition: a session that has neither made nor taken an
\* offer.
SessionIdle(pc) ==
    /\ pc.state = "open"
    /\ pc.signalingState = "stable"
    /\ ~pc.localDescription
    /\ ~pc.remoteDescription

\* The buffer emptied from its end: the candidate that came last is applied
\* first.
FlushReversed(pc) ==
    [pc EXCEPT !.applied = @ \o [k \in 1..Len(pc.buffered) |->
                                    pc.buffered[Len(pc.buffered) + 1 - k]],
               !.buffered = <<>>]

\* The remote description has been set: the buffered candidates are applied,
\* in the order they arrived in.
Flush(pc) ==
    [pc EXCEPT !.applied = @ \o pc.buffered, !.buffered = <<>>]

\* message.type === "answer": handleAnswer(message).
HandleAnswer(i) ==
    /\ DeliversSignaling(i)
    /\ IF OfferOutstanding(localConnection)
       THEN /\ localConnection' = Flush([localConnection EXCEPT
                                            !.remoteDescription = TRUE,
                                            !.signalingState = "stable"])
            /\ last' = Step("handleAnswer", "ok")
       ELSE /\ last' = Step("handleAnswer", "ProtocolError")
            /\ UNCHANGED localConnection
    /\ UNCHANGED <<sockets, signalingSocket, audioSocket, webrtc, recorder,
                   remotePeerId, isMuted, callDisabled, disconnectDisabled,
                   status, calls, started, produced, converting, candidates,
                   playback, pcm>>

\* message.type === "offer": handleOffer(message). The answer is set as the
\* local description; a second offer for the session is a protocol error.
HandleOffer(i) ==
    /\ DeliversSignaling(i)
    /\ IF SessionIdle(localConnection)
       THEN /\ localConnection' = Flush([localConnection EXCEPT
                                            !.remoteDescription = TRUE,
                                            !.localDescription = TRUE])
            /\ last' = Step("handleOffer", "ok")
       ELSE /\ last' = Step("handleOffer", "ProtocolError")
            /\ UNCHANGED localConnection
    /\ UNCHANGED <<sockets, signalingSocket, audioSocket, webrtc, recorder,
                   remotePeerId, isMuted, callDisabled, disconnectDisabled,
                   status, calls, started, produced, converting, candidates,
                   playback, pcm>>

\* message.type === "ice-candidate": handleIceCandidate(message). A candidate
\* is applied once the remote description is set and buffered until then.
HandleIceCandidate(i, candidate) ==
    /\ DeliversSignaling(i)
    /\ Len(localConnection.buffered) + Len(localConnection.applied)
          < MaxRemoteCandidates
    /\ IF localConnection.remoteDescription
       THEN /\ localConnection' = [localConnection EXCEPT
                                      !.applied = Append(@, candidate)]
            /\ last' = Step("handleIceCandidate", "applied")
       ELSE /\ localConnection' = [localConnection EXCEPT
                                      !.buffered = Append(@, candidate),
                                      !.early = Append(@, candidate)]
            /\ last' = Step("handleIceCandidate", "buffered")
    /\ UNCHANGED <<sockets, signalingSocket, audioSocket, webrtc, recorder,
                   remotePeerId, isMuted, callDisabled, disconnectDisabled,
                   status, calls, started, produced, converting, candidates,
                   playback, pcm>>

(* ------------------------------ audio out ------------------------------ *)

\* audioSocket && !isMuted: no look at readyState.
MaySendAudioUnchecked ==
    /\ audioSocket # 0
    /\ ~isMuted

\* audioSocket && audioSocket.readyState === WebSocket.OPEN && !isMuted
MaySendAudio ==
    /\ audioSocket # 0
    /\ sockets[audioSocket].readyState = "OPEN"
    /\ ~isMuted

\* mediaRecorder.ondataavailable up to its await: the chunk passes the check
\* and its arrayBuffer() is awaited, or it is dropped.
DataAvailable ==
    /\ recorder = "recording"
    /\ produced < MaxFrames
    /\ produced' = produced + 1
    /\ IF MaySendAudio
       THEN /\ converting' = converting \cup {produced + 1}
            /\ last' = Step("ondataavailable", "converting")
       ELSE /\ UNCHANGED converting
            /\ last' = Step("ondataavailable", "dropped")
    /\ UNCHANGED <<sockets, signalingSocket, audioSocket, webrtc, recorder,
                   localConnection, remotePeerId, isMuted, callDisabled,
                   disconnectDisabled, status, calls, started, candidates,
                   playback, pcm>>

\* arrayBuffer() resolves: audioSocket.send(arrayBuffer), with no second look
\* at the socket or at isMuted.
FrameConverted(f) ==
    /\ f \in converting
    /\ converting' = converting \ {f}
    /\ IF SendThrows(sockets, audioSocket)
       THEN /\ last' = Step("audioSend", "throw")
            /\ UNCHANGED sockets
       ELSE /\ sockets' = Send(sockets, audioSocket, AudioFrame(f))
            /\ last' = Step("audioSend",
                            IF sockets[audioSocket].readyState = "OPEN"
                            THEN "sent" ELSE "discarded")
    /\ UNCHANGED <<signalingSocket, audioSocket, webrtc, recorder,
                   localConnection, remotePeerId, isMuted, callDisabled,
                   disconnectDisabled, status, calls, started, produced,
                   candidates, playback, pcm>>

(* ------------------------------- audio in ------------------------------ *)

\* The audio handler is the onMessage of every socket made for audioStreamUrl;
\* a message event fires only on an OPEN socket.
DeliversAudio(i) ==
    /\ sockets[i].readyState = "OPEN"
    /\ sockets[i].onMessage = "audioHandler"

\* An inbound frame: n its arrival number, ok whether its bytes decode.
Frame(n, ok) == [n |-> n, ok |-> ok]

\* The audio onMessage handler up to its await. A Blob waits for its
\* arrayBuffer(); anything that is neither a Blob nor an ArrayBuffer is
\* reported with console.error and left.
AudioMessage(i, data, ok) ==
    /\ DeliversAudio(i)
    /\ playback.arrived < MaxInbound
    /\ IF data = "Blob"
       THEN /\ playback' = [playback EXCEPT
                               !.arrived = @ + 1,
                               !.blobs = @ \cup {Frame(playback.arrived + 1, ok)}]
            /\ last' = Step("audioHandler", "converting")
       ELSE /\ playback' = [playback EXCEPT !.arrived = @ + 1]
            /\ last' = Step("audioHandler", "invalid")
    /\ UNCHANGED <<sockets, signalingSocket, audioSocket, webrtc, recorder,
                   localConnection, remotePeerId, isMuted, callDisabled,
                   disconnectDisabled, status, calls, started, produced,
                   converting, candidates, pcm>>

\* event.data.arrayBuffer() resolves and the handler calls playAudio, which
\* makes an AudioContext and starts decodeAudioData on the bytes.
BlobConverted(f) ==
    /\ f \in playback.blobs
    /\ playback' = [playback EXCEPT !.blobs = @ \ {f},
                                    !.decoding = @ \cup {f}]
    /\ last' = Step("audioHandler", "playAudio")
    /\ UNCHANGED <<sockets, signalingSocket, audioSocket, webrtc, recorder,
                   localConnection, remotePeerId, isMuted, callDisabled,
                   disconnectDisabled, status, calls, started, produced,
                   converting, candidates, pcm>>

\* decodeAudioData is called with a success callback only and the promise it
\* returns is dropped: a failure to decode rejects that promise with nothing
\* to handle it.
DecodeFailure == "unhandledRejection"

\* decodeAudioData settles: the success callback starts the buffer playing, or
\* the decoding has failed.
AudioDecoded(f) ==
    /\ f \in playback.decoding
    /\ IF f.ok
       THEN /\ playback' = [playback EXCEPT !.decoding = @ \ {f},
                                            !.played = Append(@, f.n)]
            /\ last' = Step("playAudio", "played")
       ELSE /\ playback' = [playback EXCEPT !.decoding = @ \ {f}]
            /\ last' = Step("playAudio", DecodeFailure)
    /\ UNCHANGED <<sockets, signalingSocket, audioSocket, webrtc, recorder,
                   localConnection, remotePeerId, isMuted, callDisabled,
                   disconnectDisabled, status, calls, started, produced,
                   converting, candidates, pcm>>

(* ------------------------------- PCM mode ------------------------------ *)

Int16Min == -32768
Int16Max == 32767

\* A sample handed on as it is.
Unclamped(s) == s

\* Math.max(-1, Math.min(1, s)), on samples counted in steps of
\* 1 / SampleScale.
Clamp(s) ==
    IF s < -SampleScale THEN -SampleScale
    ELSE IF s > SampleScale THEN SampleScale
    ELSE s

\* The clamped sample scaled to 16 bits, a negative one by 32768 and any
\* other by 32767, and stored as an integer (the fraction is cut off).
FloatTo16BitPCM(s) ==
    IF Clamp(s) < 0
    THEN -((-Clamp(s) * (-Int16Min)) \div SampleScale)
    ELSE (Clamp(s) * Int16Max) \div SampleScale

\* The capture hands over a sample and it is quantized for transmission.
QuantizeSample(s) ==
    /\ pcm' = [converted |-> TRUE, sample |-> s, out |-> FloatTo16BitPCM(s)]
    /\ UNCHANGED <<sockets, signalingSocket, audioSocket, webrtc, recorder,
                   localConnection, remotePeerId, isMuted, callDisabled,
                   disconnectDisabled, status, calls, started, produced,
                   converting, candidates, playback, last>>

(* ----------------------- disconnectCall, toggleMute -------------------- *)

\* A click on disconnectButton. audioSocket.close() or signalingSocket.close()
\* on undefined is a TypeError that ends the handler where it stands.
DisconnectCall ==
    /\ webrtc = "ready"
    /\ ~disconnectDisabled
    /\ localConnection' = [localConnection EXCEPT !.state = "closed"]
    /\ IF audioSocket = 0
       THEN /\ last' = Step("disconnectCall", "throw")
            /\ UNCHANGED <<sockets, callDisabled, disconnectDisabled, status>>
       ELSE IF signalingSocket = 0
       THEN /\ sockets' = Close(sockets, audioSocket)
            /\ last' = Step("disconnectCall", "throw")
            /\ UNCHANGED <<callDisabled, disconnectDisabled, status>>
       ELSE /\ sockets' = AfterDisconnect(
                           Close(Close(sockets, audioSocket), signalingSocket))
            /\ callDisabled' = FALSE
            /\ disconnectDisabled' = TRUE
            /\ status' = "Disconnected"
            /\ last' = Step("disconnectCall", "ok")
    /\ UNCHANGED <<signalingSocket, audioSocket, webrtc, recorder,
                   remotePeerId, isMuted, calls, started, produced,
                   converting, candidates, playback, pcm>>

\* isMuted = true
Muted(muted) == TRUE

\* isMuted = !isMuted
Toggled(muted) == ~muted

\* A click on muteButton.
ToggleMute ==
    /\ webrtc = "ready"
    /\ isMuted' = Toggled(isMuted)
    /\ last' = Step("toggleMute", IF isMuted THEN "wasMuted" ELSE "wasUnmuted")
    /\ UNCHANGED <<sockets, signalingSocket, audioSocket, webrtc, recorder,
                   localConnection, remotePeerId, callDisabled,
                   disconnectDisabled, status, calls, started, produced,
                   converting, candidates, playback, pcm>>

Next ==
    \/ \E token \in Cookies : StartWebRTC(token)
    \/ GetUserMediaResolved
    \/ GetUserMediaRejected
    \/ StreamAudioStarted
    \/ \E i \in 1..Len(sockets) : SocketOpened(i)
    \/ \E i \in 1..Len(sockets) : SocketDropped(i)
    \/ \E i \in 1..Len(sockets) : SocketClosed(i)
    \/ \E i \in 1..Len(sockets) : DelayElapsed(i)
    \/ \E i \in 1..Len(sockets), token \in Cookies : TimerFired(i, token)
    \/ \E input \in TargetInputs : StartCall(input)
    \/ \E c \in BagToSet(calls) : CreateOfferSettled(c)
    \/ \E c \in BagToSet(calls) : SetLocalDescriptionSettled(c)
    \/ IceCandidate
    \/ \E i \in 1..Len(sockets) : HandleOffer(i)
    \/ \E i \in 1..Len(sockets) : HandleAnswer(i)
    \/ \E i \in 1..Len(sockets), candidate \in RemoteCandidates :
          HandleIceCandidate(i, candidate)
    \/ DataAvailable
    \/ \E f \in converting : FrameConverted(f)
    \/ \E i \in 1..Len(sockets), data \in MessageData, ok \in BOOLEAN :
          AudioMessage(i, data, ok)
    \/ \E f \in playback.blobs : BlobConverted(f)
    \/ \E f \in playback.decoding : AudioDecoded(f)
    \/ \E s \in -MaxSample..MaxSample : QuantizeSample(s)
    \/ DisconnectCall
    \/ ToggleMute

Spec == Init /\ [][Next]_vars

\* The transport alone: the page load, the sockets, their timers and
\* disconnectCall, the one handler that closes sockets.
NextTransport ==
    \/ \E token \in Cookies : StartWebRTC(token)
    \/ GetUserMediaResolved
    \/ GetUserMediaRejected
    \/ \E i \in 1..Len(sockets) : SocketOpened(i)
    \/ \E i \in 1..Len(sockets) : SocketDropped(i)
    \/ \E i \in 1..Len(sockets) : SocketClosed(i)
    \/ \E i \in 1..Len(sockets) : DelayElapsed(i)
    \/ \E i \in 1..Len(sockets), token \in Cookies : TimerFired(i, token)
    \/ DisconnectCall

SpecTransport == Init /\ [][NextTransport]_vars

\* The page within the reconnection delay of its sockets' closures: every
\* button handler and every sender, no timer that has come due and no
\* signaling message coming in (those are in SpecNegotiation). No handler reads
\* a socket that a timer made (line 403 drops connectWebSocket's result), so
\* signalingSocket and audioSocket never leave the two sockets of startWebRTC.
NextSession ==
    \/ \E token \in Cookies : StartWebRTC(token)
    \/ GetUserMediaResolved
    \/ GetUserMediaRejected
    \/ StreamAudioStarted
    \/ \E i \in 1..Len(sockets) : SocketOpened(i)
    \/ \E i \in 1..Len(sockets) : SocketDropped(i)
    \/ \E i \in 1..Len(sockets) : SocketClosed(i)
    \/ \E input \in TargetInputs : StartCall(input)
    \/ \E c \in BagToSet(calls) : CreateOfferSettled(c)
    \/ \E c \in BagToSet(calls) : SetLocalDescriptionSettled(c)
    \/ IceCandidate
    \/ DataAvailable
    \/ \E f \in converting : FrameConverted(f)
    \/ DisconnectCall
    \/ ToggleMute

SpecSession == Init /\ [][NextSession]_vars

\* A socket drops while the sockets its reconnections need are within
\* MaxSockets.
SocketDroppedInBound(i) ==
    /\ Len(sockets) + Cardinality({j \in 1..Len(sockets) :
                                      sockets[j].timer = "pending"}) < MaxSockets
    /\ SocketDropped(i)

\* The page with its cookie in place and the Disconnect button left alone:
\* sockets open and drop, and the event loop runs every timer callback that
\* is due (a pending timer's delay does pass, a due callback does run).
NextReconnect ==
    \/ StartWebRTC(Jwt)
    \/ GetUserMediaResolved
    \/ GetUserMediaRejected
    \/ \E i \in 1..Len(sockets) : SocketOpened(i)
    \/ \E i \in 1..Len(sockets) : SocketDroppedInBound(i)
    \/ \E i \in 1..Len(sockets) : DelayElapsed(i)
    \/ \E i \in 1..Len(sockets) : TimerFired(i, Jwt)

SpecReconnect ==
    /\ Init
    /\ [][NextReconnect]_vars
    /\ \A i \in 1..MaxSockets :
          /\ WF_vars(i \in 1..Len(sockets) /\ DelayElapsed(i))
          /\ WF_vars(i \in 1..Len(sockets) /\ TimerFired(i, Jwt))

\* The audio that comes in and the audio that goes out: the page load, the
\* sockets of startWebRTC, the recorder's chunks and the audio socket's
\* messages, each with its conversions, within the reconnection delay.
NextAudio ==
    \/ StartWebRTC(Jwt)
    \/ GetUserMediaResolved
    \/ StreamAudioStarted
    \/ \E i \in 1..Len(sockets) : SocketOpened(i)
    \/ \E i \in 1..Len(sockets) : SocketDropped(i)
    \/ DataAvailable
    \/ \E f \in converting : FrameConverted(f)
    \/ \E i \in 1..Len(sockets), data \in MessageData, ok \in BOOLEAN :
          AudioMessage(i, data, ok)
    \/ \E f \in playback.blobs : BlobConverted(f)
    \/ \E f \in playback.decoding : AudioDecoded(f)

SpecAudio == Init /\ [][NextAudio]_vars

\* PCM mode's conversion alone, on every sample the capture may hand over.
NextPcm == \E s \in -MaxSample..MaxSample : QuantizeSample(s)

SpecPcm == Init /\ [][NextPcm]_vars

\* The negotiation with the remote peer: the page load, the sockets of
\* startWebRTC, startCall, disconnectCall and the signaling messages that come
\* in, within the reconnection delay of the sockets' closures.
NextNegotiation ==
    \/ \E token \in Cookies : StartWebRTC(token)
    \/ GetUserMediaResolved
    \/ GetUserMediaRejected
    \/ \E i \in 1..Len(sockets) : SocketOpened(i)
    \/ \E i \in 1..Len(sockets) : SocketDropped(i)
    \/ \E i \in 1..Len(sockets) : SocketClosed(i)
    \/ \E input \in TargetInputs : StartCall(input)
    \/ \E c \in BagToSet(calls) : CreateOfferSettled(c)
    \/ \E c \in BagToSet(calls) : SetLocalDescriptionSettled(c)
    \/ \E i \in 1..Len(sockets) : HandleOffer(i)
    \/ \E i \in 1..Len(sockets) : HandleAnswer(i)
    \/ \E i \in 1..Len(sockets), candidate \in RemoteCandidates :
          HandleIceCandidate(i, candidate)
    \/ DisconnectCall

SpecNegotiation == Init /\ [][NextNegotiation]_vars

(* ------------------------------- claims -------------------------------- *)

Ids == 1..Len(sockets)

\* The sockets made by the timer that socket i's onclose set.
Reconnections(i) == {j \in Ids : sockets[j].parent = i}

\* C1: a socket that disconnectCall closed is never reconnected: no WebSocket
\* is constructed by the timer of a socket that was closed by close().
C1_NoReconnectAfterLocalClose ==
    \A j \in Ids :
        sockets[j].parent # 0 => sockets[sockets[j].parent].closedBy # "local"

\* C2: a socket that closed without close() having been called on it gets at
\* most one reconnection, none while its timer is pending; a timer callback
\* that finds the credential has just constructed that one socket; the new
\* socket has the URL and the message handler of the closed one, is made no
\* sooner than ReconnectDelay seconds after the closure, and once open has
\* sent an auth message with the credential.
C2_OneReconnectPerClosure ==
    /\ \A i \in Ids : sockets[i].closedBy = "remote" =>
          /\ Cardinality(Reconnections(i)) <= 1
          /\ sockets[i].timer = "pending" => Reconnections(i) = {}
          /\ \A j \in Reconnections(i) :
                /\ sockets[j].url = sockets[i].url
                /\ sockets[j].onMessage = sockets[i].onMessage
                /\ sockets[j].waited = ReconnectDelay
                /\ sockets[j].readyState = "OPEN" =>
                      /\ sockets[j].sent # <<>>
                      /\ sockets[j].sent[1] = AuthMessage(sockets[j].token)
    /\ last = Step("timer", "connect") =>
          /\ sockets # <<>>
          /\ sockets[Len(sockets)].parent # 0
          /\ sockets[Len(sockets)].readyState = "CONNECTING"
          /\ sockets[sockets[Len(sockets)].parent].timer = "fired"
          /\ Cardinality(Reconnections(sockets[Len(sockets)].parent)) = 1

\* C2 witness: a dropped socket's one reconnection is open and has sent auth.
C2_Witness ==
    \E i \in Ids :
        /\ sockets[i].closedBy = "remote"
        /\ sockets[i].timer = "fired"
        /\ \E j \in Reconnections(i) : sockets[j].readyState = "OPEN"

\* C3: a timer that was pending when disconnectCall returned never makes a
\* connection attempt: no WebSocket is constructed by such a timer.
C3_DisconnectCancelsTimer ==
    \A j \in Ids :
        sockets[j].parent # 0 => ~sockets[sockets[j].parent].outlived

\* C4: a connectWebSocket that finds no credential, at page load or from a
\* timer, constructs no socket, sends nothing and sets no timer.
C4_NoCredentialNoConnection ==
    [][last'.note = "noToken" =>
          /\ Len(sockets') = Len(sockets)
          /\ \A i \in Ids :
                /\ sockets'[i].sent = sockets[i].sent
                /\ sockets'[i].readyState = sockets[i].readyState
                /\ sockets'[i].timer = "pending" => sockets[i].timer = "pending"
          /\ last'.op = "startWebRTC" =>
                signalingSocket' = 0 /\ audioSocket' = 0]_vars

\* C4 witness: a reconnection timer has just run and found no credential.
C4_Witness ==
    /\ last = Step("timer", "noToken")
    /\ \E i \in Ids : sockets[i].timer = "fired" /\ Reconnections(i) = {}

\* C5: whatever a socket has sent begins with its one auth message, and an
\* open socket has sent it.
C5_AuthFirst ==
    \A i \in Ids :
        /\ sockets[i].readyState = "OPEN" => sockets[i].sent # <<>>
        /\ \A k \in 1..Len(sockets[i].sent) :
              (sockets[i].sent[k].type = "auth") <=> (k = 1)

\* C5 witness: the signaling socket has sent an offer and an ICE candidate and
\* the audio socket a frame, each after its auth.
C5_Witness ==
    /\ signalingSocket # 0
    /\ audioSocket # 0
    /\ \E k \in 1..Len(sockets[signalingSocket].sent) :
          sockets[signalingSocket].sent[k].type = "offer"
    /\ \E k \in 1..Len(sockets[signalingSocket].sent) :
          sockets[signalingSocket].sent[k].type = "ice-candidate"
    /\ \E k \in 1..Len(sockets[audioSocket].sent) :
          sockets[audioSocket].sent[k].type = "audio"

\* C6: every auth message sent carries the credential and the local peer id.
C6_AuthCarriesTokenAndPeerId ==
    \A i \in Ids : \A k \in 1..Len(sockets[i].sent) :
        sockets[i].sent[k].type = "auth" =>
            /\ sockets[i].sent[k].token # Absent
            /\ sockets[i].sent[k].peer_id = peerId

\* C7: a startCall that passed its checks (transport open, remote peer id not
\* empty) and ran to its end has left the call button disabled (Starting) and
\* has sent exactly one message, the offer from the local peer id to the
\* remote peer id it was made with.
C7_StartCallSendsOneOffer ==
    [][\A c \in BagToSet(calls) :
          ( /\ c.at = "setLocalDescription"
            /\ calls' = calls (-) Waiting(c)
            /\ last' = Step("startCall", "done") )
          => /\ callDisabled'
             /\ sockets'[signalingSocket].sent =
                   Append(sockets[signalingSocket].sent,
                          [type |-> "offer", token |-> Absent,
                           peer_id |-> peerId,
                           target_peer |-> c.asked, body |-> 0])]_vars

\* C8: a click on Call is taken up only with the signaling socket open and a
\* remote peer id typed in; a click that is turned down shows an alert and
\* leaves the call button enabled (Idle), the peer connection, the pending
\* calls and every socket with what it has sent as they were.
C8_StartCallRejected ==
    [][/\ last' = Step("startCall", "createOffer") =>
             /\ signalingSocket # 0
             /\ sockets[signalingSocket].readyState = "OPEN"
             /\ remotePeerId' # ""
       /\ last' = Step("startCall", "alert") =>
             /\ ~callDisabled'
             /\ UNCHANGED <<sockets, signalingSocket, audioSocket,
                            localConnection, calls, started, callDisabled,
                            disconnectDisabled, candidates>>]_vars

\* C8 witness: after a click with nothing typed in was turned down, a click
\* with the signaling socket no longer open has just been turned down.
C8_Witness ==
    /\ last = Step("startCall", "alert")
    /\ remotePeerId = ""
    /\ signalingSocket # 0
    /\ sockets[signalingSocket].readyState # "OPEN"

\* C9: no audio frame is handed to the transport while isMuted is true.
C9_NoAudioWhileMuted ==
    last = Step("audioSend", "sent") => ~isMuted

\* C10: toggleMute can run whenever the page has its listeners, whatever the
\* call and the sockets are doing; it negates isMuted and changes nothing
\* else; a second toggle right after a first restores the flag.
C10_ToggleMuteOnlyFlipsFlag ==
    /\ [](webrtc = "ready" => ENABLED ToggleMute)
    /\ [][last'.op = "toggleMute" =>
             /\ isMuted' = ~isMuted
             /\ last.op = "toggleMute" => (isMuted' = (last.note = "wasMuted"))
             /\ UNCHANGED <<sockets, signalingSocket, audioSocket, webrtc,
                            recorder, localConnection, remotePeerId,
                            callDisabled, disconnectDisabled, status, calls,
                            started, produced, converting, candidates,
                            playback, pcm>>]_vars

\* C10 witness: the flag has just been toggled back to false while a call is
\* Starting.
C10_Witness ==
    /\ last = Step("toggleMute", "wasMuted")
    /\ ~isMuted
    /\ callDisabled

\* C11: once disconnectCall has run, the peer connection is closed, the two
\* sockets are closing or closed, the audio capture is stopped (no recorder
\* is recording or about to), and the call button is enabled (Idle).
C11_DisconnectTearsDown ==
    last.op = "disconnectCall" =>
        /\ localConnection.state = "closed"
        /\ \A i \in {signalingSocket, audioSocket} \ {0} :
              sockets[i].readyState \in {"CLOSING", "CLOSED"}
        /\ recorder \notin {"getUserMedia", "recording"}
        /\ ~callDisabled

\* C12: disconnectCall never ends with an error, whatever the state it is
\* clicked in, and a disconnectCall that follows a disconnectCall leaves the
\* peer connection, the sockets and the buttons as the first left them.
C12_DisconnectSafeIdempotent ==
    [][last'.op = "disconnectCall" =>
          /\ last'.note # "throw"
          /\ last.op = "disconnectCall" =>
                UNCHANGED <<sockets, localConnection, callDisabled,
                            disconnectDisabled, status>>]_vars

\* C13: from the end of a disconnectCall until a startCall next runs to its
\* end (the Disconnect button stays disabled in between), no socket sends
\* anything, new sockets included, and no message handler is run on an
\* inbound message, signaling or audio.
C13_SilentAfterDisconnect ==
    [][disconnectDisabled /\ disconnectDisabled' =>
          /\ \A i \in 1..Len(sockets') :
                sockets'[i].sent =
                    IF i <= Len(sockets) THEN sockets[i].sent ELSE <<>>
          /\ last'.op \notin {"handleOffer", "handleAnswer",
                              "handleIceCandidate"}
          /\ playback'.arrived = playback.arrived]_vars

\* The sockets made for url that are not closed: connecting, open or closing.
Live(url) ==
    {i \in Ids : sockets[i].url = url /\ sockets[i].readyState # "CLOSED"}

\* C14 as stated: there is at most one RTCPeerConnection, none is made while
\* one exists, and at most one socket is open at a time.
C14_OneSessionOneConnection ==
    /\ [](Cardinality({i \in Ids : sockets[i].readyState = "OPEN"}) <= 1)
    /\ [][localConnection'.state = "open" /\ localConnection.state # "open"
             => localConnection.state = "undefined"]_vars

\* C14 amended: there is at most one RTCPeerConnection, none is made while one
\* exists, and for each of the two endpoints at most one socket is connecting,
\* open or closing at a time, reconnections included.
C14_OneSessionOneConnectionPerEndpoint ==
    /\ [](\A url \in {signalingServerUrl, audioStreamUrl} :
             Cardinality(Live(url)) <= 1)
    /\ [][localConnection'.state = "open" /\ localConnection.state # "open"
             => localConnection.state = "undefined"]_vars

\* C14 witness: both endpoints have an open socket, one of them made by a
\* reconnection timer, and the RTCPeerConnection exists.
C14_Witness ==
    /\ localConnection.state = "open"
    /\ \A url \in {signalingServerUrl, audioStreamUrl} :
          \E i \in Live(url) : sockets[i].readyState = "OPEN"
    /\ \E i \in Ids : sockets[i].parent # 0 /\ sockets[i].readyState = "OPEN"

\* C15: the createOffer of a startCall runs on an open RTCPeerConnection with
\* no description set, and when an earlier startCall has run createOffer, on
\* one made since, not on the one that call used.
C15_FreshSessionPerCall ==
    [][last' = Step("startCall", "createOffer") =>
          /\ localConnection'.state = "open"
          /\ ~localConnection'.localDescription
          /\ ~localConnection'.remoteDescription
          /\ started > 0 => localConnection' # localConnection]_vars

\* C16: an answer that comes in while no offer of this side is outstanding
\* ends in a ProtocolError and changes nothing: the RTCPeerConnection, the
\* candidates held for it, the buttons (the call state), the sockets and the
\* pending calls are as before; and on an open signaling socket the handlers
\* can always run again, so what comes in later is still processed.
C16_AnswerWithoutOfferDropped ==
    /\ [](\A i \in Ids :
             sockets[i].readyState = "OPEN" /\ sockets[i].url = signalingServerUrl
                 => ENABLED HandleAnswer(i) /\ ENABLED HandleOffer(i))
    /\ [][( /\ last'.op = "handleAnswer"
            /\ ~( /\ localConnection.state = "open"
                  /\ localConnection.signalingState = "have-local-offer" ) )
          => /\ last'.note = "ProtocolError"
             /\ UNCHANGED <<sockets, signalingSocket, audioSocket, webrtc,
                            recorder, localConnection, remotePeerId, isMuted,
                            callDisabled, disconnectDisabled, status, calls,
                            started, produced, converting, candidates,
                            playback, pcm>>]_vars

\* C16 witness: an answer has just been turned down on a page that has never
\* run createOffer, with a candidate in the buffer that it left there.
C16_Witness ==
    /\ last = Step("handleAnswer", "ProtocolError")
    /\ started = 0
    /\ localConnection.state = "open"
    /\ localConnection.buffered # <<>>

\* C17: an answer that comes in while the offer of a startCall is outstanding
\* (the call button is disabled: Starting) is taken: the remote description
\* is set, the negotiation is at rest and the call button stays disabled with
\* the Disconnect button enabled (InCall); and an offer is outstanding only
\* while the call is Starting.
C17_AnswerStartsCall ==
    /\ [](localConnection.state = "open"
             /\ localConnection.signalingState = "have-local-offer"
          => callDisabled /\ ~disconnectDisabled /\ started > 0)
    /\ [][( /\ last'.op = "handleAnswer"
            /\ localConnection.state = "open"
            /\ localConnection.signalingState = "have-local-offer" )
          => /\ last'.note = "ok"
             /\ localConnection'.remoteDescription
             /\ localConnection'.signalingState = "stable"
             /\ localConnection'.state = "open"
             /\ callDisabled' /\ ~disconnectDisabled']_vars

\* C17 witness: the offer of a startCall is in the signaling socket's log and
\* its answer has just been taken.
C17_Witness ==
    /\ last = Step("handleAnswer", "ok")
    /\ localConnection.remoteDescription
    /\ callDisabled
    /\ \E k \in 1..Len(sockets[signalingSocket].sent) :
          sockets[signalingSocket].sent[k] = OfferMessage(remotePeerId)

\* C18: while no remote description is set, every remote candidate that has
\* come in is in the buffer, in arrival order, and none has been applied;
\* once it is set the buffer is empty and the candidates applied begin with
\* those that had come in early, in their arrival order.
C18_CandidatesBufferedInOrder ==
    /\ ~localConnection.remoteDescription =>
          /\ localConnection.applied = <<>>
          /\ localConnection.buffered = localConnection.early
    /\ localConnection.remoteDescription =>
          /\ localConnection.buffered = <<>>
          /\ Len(localConnection.early) <= Len(localConnection.applied)
          /\ SubSeq(localConnection.applied, 1, Len(localConnection.early))
                = localConnection.early

\* C18 witness: two different candidates came in before the answer, and the
\* answer has just had them applied.
C18_Witness ==
    /\ last = Step("handleAnswer", "ok")
    /\ Len(localConnection.early) = 2
    /\ localConnection.early[1] # localConnection.early[2]
    /\ localConnection.applied = localConnection.early

\* C19: with the cookie in place and no disconnectCall, every socket that
\* closed without close() having been called on it is in the end followed by
\* a new socket made for it, whether it was one of startWebRTC's or itself a
\* reconnection, or the reconnection of one.
C19_ReconnectsWithoutCap ==
    \A i \in 1..MaxSockets :
        (i \in Ids /\ sockets[i].closedBy = "remote")
            ~> (i \in Ids /\ Reconnections(i) # {})

\* C19 witness: the reconnection of a dropped socket dropped as well and has
\* been reconnected in its turn.
C19_Witness ==
    \E i \in Ids, j \in Ids :
        /\ sockets[i].parent # 0
        /\ sockets[i].closedBy = "remote"
        /\ sockets[j].parent = i

\* C20: a socket's log of what it has sent grows only while the socket is
\* open; and an offer, an ICE candidate or an audio frame whose send finds
\* its socket not open (connecting, closing, closed or undefined) is dropped:
\* the handler does not end with an error and every socket, its log and its
\* timer included, is as before.
C20_SendOnNonOpenDropped ==
    [][/\ \A i \in Ids :
             sockets'[i].sent # sockets[i].sent =>
                 sockets'[i].readyState = "OPEN"
       /\ ( /\ last'.op = "audioSend"
            /\ (audioSocket = 0 \/ sockets[audioSocket].readyState # "OPEN") )
          => last'.note = "discarded" /\ sockets' = sockets
       /\ ( /\ last'.op = "onicecandidate"
            /\ (signalingSocket = 0
                   \/ sockets[signalingSocket].readyState # "OPEN") )
          => last'.note = "ok" /\ sockets' = sockets
       /\ ( /\ last'.op = "startCall"
            /\ calls' # calls
            /\ localConnection.state = "open"
            /\ (signalingSocket = 0
                   \/ sockets[signalingSocket].readyState # "OPEN") )
          => last'.note # "throw" /\ sockets' = sockets]_vars

\* C20 witness: an audio frame has just been dropped on a socket that is no
\* longer open, after an offer was dropped the same way (the call is Starting
\* and the signaling socket's log holds no offer).
C20_Witness ==
    /\ last = Step("audioSend", "discarded")
    /\ callDisabled
    /\ \A k \in 1..Len(sockets[signalingSocket].sent) :
          sockets[signalingSocket].sent[k].type # "offer"

\* C21: every ice-candidate message a socket has sent carries the local peer
\* id and a remote peer id that is set and not empty, and every offer and
\* ice-candidate message carries that same local peer id.
C21_IceCandidateAddressed ==
    \A i \in Ids : \A k \in 1..Len(sockets[i].sent) :
        /\ sockets[i].sent[k].type \in {"offer", "ice-candidate"} =>
              sockets[i].sent[k].peer_id = peerId
        /\ sockets[i].sent[k].type = "ice-candidate" =>
              sockets[i].sent[k].target_peer \notin {"", Absent}

\* C24: whenever the status shows Connected and a socket is open, the handle
\* of that socket's endpoint refers to it, reconnections included; so that
\* with an open signaling socket startCall's check of signalingSocket passes.
C24_HandleFollowsReconnection ==
    \A i \in Ids :
        status = "Connected" /\ sockets[i].readyState = "OPEN" =>
            /\ sockets[i].url = signalingServerUrl =>
                  signalingSocket = i /\ SignalingOpen
            /\ sockets[i].url = audioStreamUrl => audioSocket = i

\* C25: the signaling socket's log holds at most one offer. (A disconnectCall
\* closes the socket, so nothing is added to its log after one.)
C25_OneOfferPerCall ==
    signalingSocket # 0 =>
        Cardinality({k \in 1..Len(sockets[signalingSocket].sent) :
                        sockets[signalingSocket].sent[k].type = "offer"}) <= 1

\* C26: for each endpoint, the sockets that are connecting or open and the
\* reconnection timers that are pending number at most one in all.
C26_NoMultiplication ==
    \A url \in {signalingServerUrl, audioStreamUrl} :
        Cardinality({i \in Ids : /\ sockets[i].url = url
                                 /\ sockets[i].readyState
                                       \in {"CONNECTING", "OPEN"}})
          + Cardinality({i \in Ids : /\ sockets[i].url = url
                                     /\ sockets[i].timer = "pending"}) <= 1

\* C26 witness: a socket was lost, its reconnection was lost, the
\* reconnection of that one was lost as well and its timer is pending.
C26_Witness ==
    \E i \in Ids :
        /\ sockets[i].timer = "pending"
        /\ sockets[i].parent # 0
        /\ sockets[sockets[i].parent].parent # 0

\* C22: an inbound audio message that is neither a Blob nor an ArrayBuffer is
\* left alone: nothing is played and nothing is pending for it; a frame whose
\* decoding fails is dropped with no error left unhandled, nothing is played
\* for it, and the frames still pending stay pending, to be decoded and played
\* in their turn.
C22_BadInboundFrameDropped ==
    [][/\ last' = Step("audioHandler", "invalid") =>
             /\ playback'.played = playback.played
             /\ playback'.blobs = playback.blobs
             /\ playback'.decoding = playback.decoding
       /\ ( /\ last'.op = "playAudio"
            /\ playback'.played = playback.played )
          => /\ last'.note = "dropped"
             /\ \E f \in playback.decoding :
                   /\ ~f.ok
                   /\ playback'.decoding = playback.decoding \ {f}
             /\ playback'.blobs = playback.blobs]_vars

\* C23: a quantized sample lies in [-32768, 32767]; a sample of 1.0 or more
\* gives 32767, one of -1.0 or less gives -32768, and 0.0 gives 0.
C23_QuantizationRange ==
    pcm.converted =>
        /\ pcm.out >= -32768 /\ pcm.out <= 32767
        /\ pcm.sample >= SampleScale => pcm.out = 32767
        /\ pcm.sample <= -SampleScale => pcm.out = -32768
        /\ pcm.sample = 0 => pcm.out = 0

\* C23 witness: a sample beyond full negative amplitude has been clamped and
\* quantized to -32768.
C23_Witness ==
    /\ pcm.converted
    /\ pcm.sample < -SampleScale
    /\ pcm.out = -32768

\* C27: the audio frames in the audio socket's log are in the order the
\* recorder produced them, and the inbound frames played are in the order
\* they arrived in.
C27_FramesKeepOrder ==
    /\ audioSocket # 0 =>
          \A j, k \in 1..Len(sockets[audioSocket].sent) :
              ( /\ j < k
                /\ sockets[audioSocket].sent[j].type = "audio"
                /\ sockets[audioSocket].sent[k].type = "audio" )
              => sockets[audioSocket].sent[j].body
                    < sockets[audioSocket].sent[k].body
    /\ \A j, k \in 1..Len(playback.played) :
          j < k => playback.played[j] < playback.played[k]
====
